---- MODULE Spec2Model ----
(***************************************************************************)
(* Request dispatch and worker supervision of the edge runtime:            *)
(*   base/src/server.rs     Server::listen, Server::handle_conn            *)
(*   base/src/js_worker.rs  JsWorker::new / accept / run and the           *)
(*                          controller thread                              *)
(* The model follows one connection carrying one request: handle_conn has  *)
(* no receiver and every worker its own channels, so requests share no     *)
(* state.  The request task, the host thread of the request's worker, the  *)
(* worker's controller thread and the user code inside the engine are the  *)
(* processes of the model.                                                 *)
(* Time is abstracted: the wall-clock sleep of the controller may complete *)
(* at any moment.                                                          *)
(***************************************************************************)
EXTENDS Integers, Sequences, FiniteSets, TLC

\* ---------------------------------------------------------------- bounds
MaxSegs == 2            \* path segments of a request line
MaxHeapCallbacks == 2   \* invocations of the near-heap-limit callback
MaxMemLimitMb == 9      \* largest memory_limit_mb handed to JsWorker::new directly

\* ------------------------------------------------------- program constants
MiB == 1048576                       \* bytes per MiB (utils::units::mib_to_bytes)
HardMemoryLimitMb == 150 * 1024      \* server.rs: let memory_limit_mb = (150 * 1024) as u64
HardWorkerTimeoutMs == 60 * 1000     \* server.rs: let worker_timeout_ms = (60 * 1000) as u64
HardServicesDir == "./examples"      \* server.rs: Path::new(&"./examples".to_string())

\* ------------------------------------------------------------ environment
\* Segments a request path is built from, and the directories under ./examples.
Segs == {"", ".", "..", "hello", "nope"}
ExistingDirs == {"hello"}
HostHeaders == {"absent", "valid", "invalid_host", "non_text"}
UserStatus == {200, 404}

RawPaths == UNION {[1..n -> Segs] : n \in 0..MaxSegs}

\* ---------------------------------------------------------- byte amounts
\* A byte amount q * MiB + r is kept as <<q, r>> with 0 <= r < MiB, since
\* 150 * 1024 MiB in bytes exceeds the 32-bit integers of TLC.
Bytes(q, r) == <<q + (r \div MiB), r % MiB>>

BytesAdd(a, b) == Bytes(a[1] + b[1], a[2] + b[2])

mib_to_bytes(mib) == Bytes(mib, 0)

\* A quarter of mib MiB, exactly: mib * MiB / 4 = (mib div 4) MiB + (mib mod 4) * MiB/4.
QuarterOfMib(mib) == Bytes(mib \div 4, (mib % 4) * (MiB \div 4))

\* ------------------------------------------------------------- URL parsing
DropLast(s) == IF s = <<>> THEN s ELSE SubSeq(s, 1, Len(s) - 1)

\* Url::parse on an http URL: "." segments are removed, ".." removes the
\* segment before it, and either one in last position leaves an empty segment.
RECURSIVE NormalizePath(_, _)
NormalizePath(raw, acc) ==
  IF raw = <<>> THEN acc
  ELSE LET s == Head(raw)
           last == Len(raw) = 1
           slash == IF last THEN <<"">> ELSE <<>>
       IN  IF s = ".." THEN NormalizePath(Tail(raw), DropLast(acc) \o slash)
           ELSE IF s = "." THEN NormalizePath(Tail(raw), acc \o slash)
           ELSE NormalizePath(Tail(raw), Append(acc, s))

\* url.path_segments(): an http URL always has a path; the empty path is "/".
path_segments(raw) ==
  LET n == NormalizePath(raw, <<>>) IN IF n = <<>> THEN <<"">> ELSE n

\* path_segments.unwrap().next().unwrap_or_default()
ServiceName(raw) == Head(path_segments(raw))

\* Path::new("./examples").join(service_name).exists(); joining "" gives the root.
ServicePathExists(name) == name = "" \/ name \in ExistingDirs

\* load_main_module resolves <service_path>/index.ts
MainModuleExists(name) == name \in ExistingDirs

\* Outcome of the synchronous prefix of the service closure of handle_conn.
HandlePrefix(h, pairOk) ==
  IF h = "non_text" THEN "panic"
  ELSE IF h = "invalid_host" THEN "error"
  ELSE IF ~pairOk THEN "error"
  ELSE "spawn"

\* ------------------------------------------------------------------ state
VARIABLES
  handler,          \* request task: idle, start, handshake, send, await, done
  req,              \* the request: [host, path]
  service_name,     \* first path segment after URL parsing
  outcome,          \* none, response, error, panic
  status,           \* status of the response handed back, 0 if none
  local,            \* sender_stream: none, open, closed
  peer,             \* recv_stream: none, closure, queued, taken, closed
  reqWritten,       \* request bytes were written to local
  reqRead,          \* user code has read request bytes from peer
  respWritten,      \* status of the response user code wrote, 0 if none
  hostpc,           \* host thread: none, new, accept, run, load, exec, send, recv, done, failed, panicked
  newResult,        \* result of JsWorker::new
  runRes,           \* res of block_on in run: none, ok, err
  shutdownSent,     \* number of sends on shutdown_tx
  shutdownTx,       \* the oneshot sender: none, alive, gone (consumed by run)
  shutdownRx,       \* the oneshot receiver: none, held, dropped
  memory_limit_mb,  \* argument of JsWorker::new
  worker_timeout_ms,\* argument of JsWorker::new
  import_map_path,  \* argument of JsWorker::new: none or some
  engine,           \* js_runtime: none, alive, disposed
  terminated,       \* termination requested on the isolate
  heap_limit,       \* current heap cap of the isolate, a byte amount
  heapCallbacks,    \* number of near-heap-limit callback invocations
  opStateRx,        \* op_state holds the UnboundedReceiver<UnixStream>
  userWaiting,      \* no JavaScript is running: the event loop waits for an op
  memq,             \* messages in the memory_limit channel
  memTxAlive,       \* memory_limit_tx (owned by the callback) not dropped
  ctrl,             \* controller thread: none, select, terminate, done
  trigger,          \* select! branch that completed: none, wall, memory
  memBranchDisabled,\* recv() returned None, the select! branch is disabled
  terminateCalls,   \* number of terminate_execution calls
  terminateRet,     \* result of terminate_execution: none, true, false
  listen,           \* Server::listen: accepting, returned
  acceptFailed,     \* listener.accept() has returned Err at least once
  config,           \* fields of Server: [services_dir, mem_limit, service_timeout]
  events,           \* worker events emitted so far
  event,            \* a WorkerEvents value about to be sent
  cpu_time_used_ms, \* the argument of with_cpu_time_used
  patched,          \* the value with_cpu_time_used returned, NoEvent before
  osTimer,          \* the kernel timer: none, failed, armed, deleted
  handles,          \* CPUTimer values alive (strong count of both Arcs)
  clones,           \* clones made of the CPUTimer so far
  droppc,           \* drop of the last CPUTimer: none, id_dropped, done
  valLive,          \* the allocation holding the CPUAlarmVal exists
  sigPending,       \* a SIGALRM of the timer is pending in the kernel
  sigpc,            \* sigalrm_handler: idle, entered, boxed, cloned, forgot, crashed
  txValid,          \* the handler's cpu_alarms_tx is a clone of the real sender
  rxAlive,          \* the receiver of the alarm channel exists
  expiries,         \* expiries of the timer so far
  handled,          \* runs of the handler that returned
  pushed,           \* units pushed to the alarm channel
  ignored,          \* sends that failed on a dropped receiver and were ignored
  readFreed,        \* the handler read the CPUAlarmVal after it was freed
  freedBy           \* who freed the CPUAlarmVal: none, drop, handler

handlerVars == <<handler, req, service_name, outcome, status>>
streamVars == <<local, peer, reqWritten, reqRead, respWritten>>
hostVars == <<hostpc, newResult, runRes, shutdownSent, shutdownTx, shutdownRx>>
paramVars == <<memory_limit_mb, worker_timeout_ms, import_map_path>>
engineVars == <<engine, terminated, heap_limit, heapCallbacks, opStateRx, userWaiting>>
memVars == <<memq, memTxAlive>>
ctrlVars == <<ctrl, trigger, memBranchDisabled, terminateCalls, terminateRet>>
coreVars == <<handlerVars, streamVars, hostVars, paramVars, engineVars, memVars, ctrlVars>>
serverVars == <<listen, acceptFailed, config>>
eventVars == <<events, event, cpu_time_used_ms, patched>>
timerVars ==
  <<osTimer, handles, clones, droppc, valLive, sigPending, sigpc, txValid, rxAlive,
    expiries, handled, pushed, ignored, readFreed, freedBy>>
auxVars == <<serverVars, eventVars, timerVars>>
vars == <<coreVars, auxVars>>

\* ------------------------------------------------------------- WorkerEvents
MaxCpuMs == 2
Times == 0..MaxCpuMs
Msgs == {"a", "b"}
ShutdownReasons ==
  {"WallClockTime", "CPUTime", "Memory(MemCheck)", "Memory(V8)", "EarlyDrop",
   "TerminationRequested"}
LogLevels == {"Debug", "Info", "Warning", "Error"}
MemoryUsed == {"low", "high"}

\* enum WorkerEvents: the variant and its payload struct.
WorkerEvents ==
  [tag : {"Boot"}, body : [boot_time : Times]]
    \cup [tag : {"BootFailure"}, body : [msg : Msgs]]
    \cup [tag : {"UncaughtException"},
          body : [exception : Msgs, cpu_time_used : Times]]
    \cup [tag : {"Shutdown"},
          body : [reason : ShutdownReasons, cpu_time_used : Times,
                  memory_used : MemoryUsed]]
    \cup [tag : {"EventLoopCompleted"}, body : [cpu_time_used : Times]]
    \cup [tag : {"Log"}, body : [msg : Msgs, level : LogLevels]]

NoEvent == [tag |-> "none", body |-> [none |-> TRUE]]

\* Variant: every variant that has a cpu_time_used field is patched.
with_cpu_time_used_AnyField(self, ms) ==
  IF self.tag \in {"UncaughtException", "Shutdown", "EventLoopCompleted"}
  THEN [self EXCEPT !.body.cpu_time_used = ms]
  ELSE self

\* WorkerEvents::with_cpu_time_used: the match patches two variants, `_ => {}`.
with_cpu_time_used(self, ms) ==
  IF self.tag \in {"UncaughtException", "Shutdown"}
  THEN [self EXCEPT !.body.cpu_time_used = ms]
  ELSE self

EventIdle ==
  /\ event = NoEvent
  /\ cpu_time_used_ms = 0
  /\ patched = NoEvent

\* ----------------------------------------------------------------- CPUTimer
MaxAlarms == 2      \* expiries of the timer
MaxClones == 1      \* clones made of the CPUTimer

\* No CPUTimer has been started.
TimerIdle ==
  /\ osTimer = "none"
  /\ handles = 0
  /\ clones = 0
  /\ droppc = "none"
  /\ valLive = FALSE
  /\ sigPending = FALSE
  /\ sigpc = "idle"
  /\ txValid = FALSE
  /\ rxAlive = FALSE
  /\ expiries = 0
  /\ handled = 0
  /\ pushed = 0
  /\ ignored = 0
  /\ readFreed = FALSE
  /\ freedBy = "none"

\* Values of the Server fields given to Server::new (mem_limit and
\* service_timeout are u16).
ServerConfigs ==
  { [services_dir |-> "./examples", mem_limit |-> 150, service_timeout |-> 60],
    [services_dir |-> "./functions", mem_limit |-> 16, service_timeout |-> 200] }

FirstConfig == [services_dir |-> "./examples", mem_limit |-> 150, service_timeout |-> 60]

NoReq == [host |-> "absent", path |-> <<>>]

Init ==
  /\ handler = "idle"
  /\ req = NoReq
  /\ service_name = ""
  /\ outcome = "none"
  /\ status = 0
  /\ local = "none"
  /\ peer = "none"
  /\ reqWritten = FALSE
  /\ reqRead = FALSE
  /\ respWritten = 0
  /\ hostpc = "none"
  /\ newResult = "none"
  /\ runRes = "none"
  /\ shutdownSent = 0
  /\ shutdownTx = "none"
  /\ shutdownRx = "none"
  /\ memory_limit_mb = 0
  /\ worker_timeout_ms = 0
  /\ import_map_path = "none"
  /\ engine = "none"
  /\ terminated = FALSE
  /\ heap_limit = mib_to_bytes(0)
  /\ heapCallbacks = 0
  /\ opStateRx = FALSE
  /\ userWaiting = FALSE
  /\ memq = <<>>
  /\ memTxAlive = FALSE
  /\ ctrl = "none"
  /\ trigger = "none"
  /\ memBranchDisabled = FALSE
  /\ terminateCalls = 0
  /\ terminateRet = "none"
  /\ listen = "accepting"
  /\ acceptFailed = FALSE
  /\ config = FirstConfig
  /\ events = <<>>
  /\ EventIdle
  /\ TimerIdle
\* ------------------------------------------------------------ Server::listen
\* listener.accept() => Ok((conn, _)): spawn the task running handle_conn.
ListenAccept ==
  /\ listen = "accepting"
  /\ handler = "idle"
  /\ handler' = "start"
  /\ UNCHANGED <<req, service_name, outcome, status>>
  /\ UNCHANGED <<streamVars, hostVars, paramVars, engineVars, memVars, ctrlVars>>
  /\ UNCHANGED auxVars

\* Variant: an accept error ends the loop (the error is returned with `?`).
ListenAfter_ErrBreaks(msg) == IF msg = "ok" THEN "accepting" ELSE "returned_ok"

\* One turn of the select! loop: a connection or an accept error goes round
\* the loop, ctrl_c breaks out of it to the final Ok(()).
ListenAfter(msg) == IF msg = "ctrl_c" THEN "returned_ok" ELSE "accepting"

\* listener.accept() => Err(e): error!("socket error: {}", e).
ListenAcceptErr ==
  /\ listen = "accepting"
  /\ ~acceptFailed
  /\ acceptFailed' = TRUE
  /\ listen' = ListenAfter("err")
  /\ UNCHANGED <<coreVars, config, eventVars, timerVars>>

\* tokio::signal::ctrl_c() completes: break, Ok(()).  The spawned tasks are
\* neither joined nor cancelled.
ListenCtrlC ==
  /\ listen = "accepting"
  /\ listen' = ListenAfter("ctrl_c")
  /\ UNCHANGED <<coreVars, acceptFailed, config, eventVars, timerVars>>

\* ------------------------------------------------------- Server::handle_conn
\* The service closure up to thread::spawn: host header, URL, first segment,
\* the (only logged) checks, the stream pair and the spawn of the host thread.
HandleRequest ==
  /\ handler = "start"
  /\ \E h \in HostHeaders, p \in RawPaths, pairOk \in BOOLEAN :
       LET r == HandlePrefix(h, pairOk) IN
       /\ req' = [host |-> h, path |-> p]
       /\ IF r = "spawn"
          THEN /\ service_name' = ServiceName(p)
               /\ handler' = "handshake"
               /\ outcome' = outcome
               /\ local' = "open"
               /\ peer' = "closure"
               /\ hostpc' = "new"
               /\ memory_limit_mb' = HardMemoryLimitMb
               /\ worker_timeout_ms' = HardWorkerTimeoutMs
               /\ import_map_path' = "none"
          ELSE /\ handler' = "done"
               /\ outcome' = r
               /\ UNCHANGED <<service_name, local, peer, hostpc, paramVars>>
  /\ UNCHANGED <<status, reqWritten, reqRead, respWritten>>
  /\ UNCHANGED <<newResult, runRes, shutdownSent, shutdownTx, shutdownRx>>
  /\ UNCHANGED <<engineVars, memVars, ctrlVars>>
  /\ UNCHANGED auxVars

\* hyper::client::conn::handshake(sender_stream): no I/O for HTTP/1; then the
\* connection driver is spawned.
ClientHandshake ==
  /\ handler = "handshake"
  /\ handler' = "send"
  /\ UNCHANGED <<req, service_name, outcome, status>>
  /\ UNCHANGED <<streamVars, hostVars, paramVars, engineVars, memVars, ctrlVars>>
  /\ UNCHANGED auxVars

\* request_sender.send_request(req): the driver writes the request to local;
\* the write fails when the other end is already closed.
SendRequest ==
  /\ handler = "send"
  /\ IF peer = "closed"
     THEN /\ handler' = "done"
          /\ outcome' = "error"
          /\ local' = "closed"
          /\ UNCHANGED reqWritten
     ELSE /\ handler' = "await"
          /\ reqWritten' = TRUE
          /\ UNCHANGED <<outcome, local>>
  /\ UNCHANGED <<req, service_name, status, peer, reqRead, respWritten>>
  /\ UNCHANGED <<hostVars, paramVars, engineVars, memVars, ctrlVars>>
  /\ UNCHANGED auxVars

\* send_request(req).await?: a buffered response is delivered; otherwise the
\* close of the other end ends the exchange with an error.
AwaitResponse ==
  /\ handler = "await"
  /\ respWritten # 0 \/ peer = "closed"
  /\ handler' = "done"
  /\ IF respWritten # 0
     THEN /\ outcome' = "response"
          /\ status' = respWritten
     ELSE /\ outcome' = "error"
          /\ UNCHANGED status
  /\ local' = "closed"
  /\ UNCHANGED <<req, service_name, peer, reqWritten, reqRead, respWritten>>
  /\ UNCHANGED <<hostVars, paramVars, engineVars, memVars, ctrlVars>>
  /\ UNCHANGED auxVars

\* -------------------------------------------------------------- JsWorker::new
\* The failure points of new in source order: current_dir()? , load_import_map()?,
\* DefaultModuleLoader::new()?, JsRuntime::new (panics inside), and the two
\* execute_script(..).expect(..) of the bootstrap.
NewOutcome(imp, cwdOk, importOk, loaderOk, engineOk, bootOk) ==
  IF ~cwdOk THEN "err_service_path"
  ELSE IF imp = "some" /\ ~importOk THEN "err_import_map"
  ELSE IF ~loaderOk THEN "err_module_loader"
  ELSE IF ~engineOk THEN "panic_engine"
  ELSE IF ~bootOk THEN "panic_bootstrap"
  ELSE "ok"

NewErrs == {"err_service_path", "err_import_map", "err_module_loader"}
NewPanics == {"panic_engine", "panic_bootstrap"}

\* Variant: the closure's stream outlives the closure (leaked instead of dropped).
PeerOnClosureExit_Leak(p) == p

\* recv_stream is moved into the thread closure: when the closure ends (return
\* or unwinding) while still owning it, the stream is dropped, which closes it.
PeerOnClosureExit(p) == IF p = "closure" THEN "closed" ELSE p

\* Variant: run is started right after new, accept is left out.
NextHostStep_NoAccept(step) ==
  CASE step = "new" -> "run"
    [] step = "accept" -> "run"
    [] step = "run" -> "load"

\* The statements of the thread closure in order: new, accept, run.
NextHostStep(step) ==
  CASE step = "new" -> "accept"
    [] step = "accept" -> "run"
    [] step = "run" -> "load"

\* Host thread: js_worker::JsWorker::new(..)?
HostNew ==
  /\ hostpc = "new"
  /\ \E cwdOk, importOk, loaderOk, engineOk, bootOk \in BOOLEAN :
       LET r == NewOutcome(import_map_path, cwdOk, importOk, loaderOk, engineOk, bootOk) IN
       /\ newResult' = r
       /\ IF r = "ok"
          THEN /\ hostpc' = NextHostStep("new")
               /\ engine' = "alive"
               /\ heap_limit' = mib_to_bytes(memory_limit_mb)
               /\ memTxAlive' = TRUE
               /\ opStateRx' = TRUE
               /\ ctrl' = "select"
               /\ UNCHANGED peer
          ELSE /\ hostpc' = IF r \in NewPanics THEN "panicked" ELSE "failed"
               /\ engine' = IF r = "panic_bootstrap" THEN "disposed" ELSE engine
               /\ peer' = PeerOnClosureExit(peer)
               /\ UNCHANGED <<heap_limit, memTxAlive, opStateRx, ctrl>>
  /\ UNCHANGED <<handlerVars, local, reqWritten, reqRead, respWritten>>
  /\ UNCHANGED <<runRes, shutdownSent, shutdownTx, shutdownRx>>
  /\ UNCHANGED <<paramVars, terminated, heapCallbacks, memq>>
  /\ UNCHANGED <<userWaiting, trigger, memBranchDisabled, terminateCalls, terminateRet>>
  /\ UNCHANGED auxVars

\* ----------------------------------------------------------- JsWorker::accept
\* unix_stream_tx.send(stream), result ignored: the stream is queued for the
\* receiver in the op-state, or dropped with the error when there is none.
HostAccept ==
  /\ hostpc = "accept"
  /\ hostpc' = NextHostStep("accept")
  /\ peer' = IF opStateRx THEN "queued" ELSE "closed"
  /\ UNCHANGED <<handlerVars, local, reqWritten, reqRead, respWritten>>
  /\ UNCHANGED <<newResult, runRes, shutdownSent, shutdownTx, shutdownRx>>
  /\ UNCHANGED <<paramVars, engineVars, memVars, ctrlVars>>
  /\ UNCHANGED auxVars

\* -------------------------------------------------------------- JsWorker::run
\* oneshot::channel(), run(): the engine is moved into the future and block_on
\* starts driving it.
\* Variant: the receiver is not bound (`let (shutdown_tx, _) = ..`) and is
\* dropped as soon as the channel is made.
ShutdownRxAfter_Unbound(stmt) == "dropped"

\* The receiver of oneshot::channel() after a statement of the closure: bound
\* to shutdown_rx by the let, consumed by blocking_recv.
ShutdownRxAfter(stmt) == IF stmt = "channel" THEN "held" ELSE "dropped"

\* oneshot::Sender::send: Err(value) when the receiver has been dropped.
OneshotSend(rx) == IF rx = "held" THEN "ok" ELSE "err"

\* oneshot::Receiver::blocking_recv returns once a value was sent or the
\* sender was dropped.
OneshotRecvReady(sent, tx) == IF sent >= 1 THEN TRUE ELSE tx = "gone"

\* let (shutdown_tx, shutdown_rx) = oneshot::channel::<()>(); worker.run(shutdown_tx)
HostRunStart ==
  /\ hostpc = "run"
  /\ hostpc' = NextHostStep("run")
  /\ shutdownTx' = "alive"
  /\ shutdownRx' = ShutdownRxAfter("channel")
  /\ UNCHANGED <<handlerVars, streamVars, newResult, runRes, shutdownSent>>
  /\ UNCHANGED <<paramVars, engineVars, memVars, ctrlVars>>
  /\ UNCHANGED auxVars

\* Variant: the stream handed to the sandbox outlives the engine.
PeerOnEngineDrop_Leak(p) == p

\* The stream is owned by the op-state, in the inbound queue or as a resource
\* taken from it: dropping the engine drops it, which closes it.
PeerOnEngineDrop(p) == IF p \in {"queued", "taken"} THEN "closed" ELSE p

\* The future resolves with res and is dropped: the engine goes with it, and
\* with the engine the op-state (the queue and any stream taken from it) and
\* the near-heap-limit callback that owns memory_limit_tx.
ExitBlockOn(res) ==
  /\ runRes' = res
  /\ hostpc' = "send"
  /\ engine' = "disposed"
  /\ opStateRx' = FALSE
  /\ userWaiting' = FALSE
  /\ memTxAlive' = FALSE
  /\ peer' = PeerOnEngineDrop(peer)
  /\ UNCHANGED <<handlerVars, local, reqWritten, reqRead, respWritten>>
  /\ UNCHANGED <<newResult, shutdownSent, shutdownTx, shutdownRx>>
  /\ UNCHANGED <<paramVars, terminated, heap_limit, heapCallbacks>>
  /\ UNCHANGED <<memq, ctrlVars>>

\* js_runtime.load_main_module(..).await?
RunLoadMainModule ==
  /\ hostpc = "load"
  /\ IF MainModuleExists(service_name)
     THEN /\ hostpc' = "exec"
          /\ UNCHANGED <<handlerVars, streamVars, newResult, runRes>>
          /\ UNCHANGED <<shutdownSent, shutdownTx, shutdownRx>>
          /\ UNCHANGED <<paramVars, engineVars, memVars, ctrlVars>>
     ELSE ExitBlockOn("err")
  /\ UNCHANGED auxVars

\* A requested termination interrupts JavaScript that is running: the engine
\* step fails.  terminate_execution does not wake an event loop that waits for
\* an op; the request then stays pending until JavaScript runs again.
RunTerminated ==
  /\ hostpc \in {"load", "exec"}
  /\ terminated
  /\ ~userWaiting
  /\ ExitBlockOn("err")
  /\ UNCHANGED auxVars

\* ------------------------------------------------------------------ user code
\* User code awaits an op (a stream, bytes, a timer): no JavaScript runs until
\* the op completes.
UserAwait ==
  /\ hostpc = "exec"
  /\ ~userWaiting
  /\ userWaiting' = TRUE
  /\ UNCHANGED <<handlerVars, streamVars, hostVars, paramVars, memVars, ctrlVars>>
  /\ UNCHANGED <<engine, terminated, heap_limit, heapCallbacks, opStateRx>>
  /\ UNCHANGED auxVars

\* The awaited op completes and JavaScript runs again; an op may never complete.
UserWake ==
  /\ hostpc = "exec"
  /\ userWaiting
  /\ userWaiting' = FALSE
  /\ UNCHANGED <<handlerVars, streamVars, hostVars, paramVars, memVars, ctrlVars>>
  /\ UNCHANGED <<engine, terminated, heap_limit, heapCallbacks, opStateRx>>
  /\ UNCHANGED auxVars

\* The http-start op takes the next stream from the inbound queue.
UserAcceptStream ==
  /\ hostpc = "exec"
  /\ ~userWaiting
  /\ opStateRx
  /\ peer = "queued"
  /\ peer' = "taken"
  /\ UNCHANGED <<handlerVars, local, reqWritten, reqRead, respWritten>>
  /\ UNCHANGED <<hostVars, paramVars, engineVars, memVars, ctrlVars>>
  /\ UNCHANGED auxVars

UserReadRequest ==
  /\ hostpc = "exec"
  /\ ~userWaiting
  /\ peer = "taken"
  /\ reqWritten
  /\ ~reqRead
  /\ reqRead' = TRUE
  /\ UNCHANGED <<handlerVars, local, peer, reqWritten, respWritten>>
  /\ UNCHANGED <<hostVars, paramVars, engineVars, memVars, ctrlVars>>
  /\ UNCHANGED auxVars

UserWriteResponse ==
  /\ hostpc = "exec"
  /\ ~userWaiting
  /\ peer = "taken"
  /\ reqRead
  /\ respWritten = 0
  /\ \E s \in UserStatus : respWritten' = s
  /\ UNCHANGED <<handlerVars, local, peer, reqWritten, reqRead>>
  /\ UNCHANGED <<hostVars, paramVars, engineVars, memVars, ctrlVars>>
  /\ UNCHANGED auxVars

\* The entry module's evaluation resolves and the event loop has no work left.
UserComplete ==
  /\ hostpc = "exec"
  /\ ~userWaiting
  /\ ExitBlockOn("ok")
  /\ UNCHANGED auxVars

\* An uncaught exception.
UserThrow ==
  /\ hostpc = "exec"
  /\ ~userWaiting
  /\ ExitBlockOn("err")
  /\ UNCHANGED auxVars

\* ---------------------------------------------------- near-heap-limit callback
\* mib_to_bytes(memory_limit_mb + memory_limit_mb.div_euclid(4))
NearHeapLimitReturn(limit_mb) == mib_to_bytes(limit_mb + (limit_mb \div 4))

\* The engine calls the callback while it runs code: one message to the
\* memory_limit channel (dropped when the receiver is gone) and the new cap.
NearHeapLimitCallback ==
  /\ hostpc \in {"load", "exec"}
  /\ engine = "alive"
  /\ ~userWaiting
  /\ heapCallbacks < MaxHeapCallbacks
  /\ heapCallbacks' = heapCallbacks + 1
  /\ memq' = IF ctrl = "select"
             THEN Append(memq, mib_to_bytes(memory_limit_mb))
             ELSE memq
  /\ heap_limit' = NearHeapLimitReturn(memory_limit_mb)
  /\ UNCHANGED <<handlerVars, streamVars, hostVars, paramVars>>
  /\ UNCHANGED <<engine, terminated, opStateRx, userWaiting, memTxAlive, ctrlVars>>
  /\ UNCHANGED auxVars

\* Variant: an error of the future is propagated with `?` before the send.
ShutdownSends_OnlyOnOk(res) == IF res = "err" THEN 0 ELSE 1

\* After block_on: log an error, shutdown_tx.send(()).unwrap(), return Ok.
ShutdownSends(res) == 1

RunSendShutdown ==
  /\ hostpc = "send"
  /\ shutdownTx' = "gone"
  /\ IF OneshotSend(shutdownRx) = "ok"
     THEN /\ shutdownSent' = shutdownSent + ShutdownSends(runRes)
          /\ hostpc' = "recv"
     ELSE /\ hostpc' = "panicked"
          /\ UNCHANGED shutdownSent
  /\ UNCHANGED <<handlerVars, streamVars, newResult, runRes, shutdownRx>>
  /\ UNCHANGED <<paramVars, engineVars, memVars, ctrlVars>>
  /\ UNCHANGED auxVars

\* shutdown_rx.blocking_recv(), then the closure returns Ok(()).
HostBlockingRecv ==
  /\ hostpc = "recv"
  /\ OneshotRecvReady(shutdownSent, shutdownTx)
  /\ hostpc' = "done"
  /\ shutdownRx' = ShutdownRxAfter("recv")
  /\ peer' = PeerOnClosureExit(peer)
  /\ UNCHANGED <<handlerVars, local, reqWritten, reqRead, respWritten>>
  /\ UNCHANGED <<newResult, runRes, shutdownSent, shutdownTx>>
  /\ UNCHANGED <<paramVars, engineVars, memVars, ctrlVars>>
  /\ UNCHANGED auxVars

\* ------------------------------------------- JsWorker::start_controller_thread
\* Variant: the arm is written `_ = memory_limit_rx.recv()` and completes on None.
SelectMemoryArm_AnyResult(msg) == "fire"

\* tokio::select! arm `Some(val) = memory_limit_rx.recv()`: a message completes
\* the select, None (channel closed) only disables the arm.
SelectMemoryArm(msg) == IF msg = "none" THEN "disabled" ELSE "fire"

\* Variant: the handle never reaches the isolate that runs the user code.
TerminateExecution_Never(e) == FALSE

\* thread_safe_handle.terminate_execution(): true and a termination request on
\* a live isolate, false and no effect on a disposed one.
TerminateExecution(e) == e = "alive"

\* Variant: the termination request is recorded whatever the handle returned.
TerminatedAfter_Always(ok, t) == TRUE

\* The termination request pending on the isolate after a call that returned
\* ok: set by a call that reached the isolate, never cleared by a call.
TerminatedAfter(ok, t) == IF ok THEN TRUE ELSE t

\* _ = tokio::time::sleep(Duration::from_millis(worker_timeout_ms)) completes.
ControllerWallTimeout ==
  /\ ctrl = "select"
  /\ ctrl' = "terminate"
  /\ trigger' = "wall"
  /\ memq' = <<>>
  /\ UNCHANGED <<handlerVars, streamVars, hostVars, paramVars, engineVars>>
  /\ UNCHANGED <<memTxAlive, memBranchDisabled, terminateCalls, terminateRet>>
  /\ UNCHANGED auxVars

\* memory_limit_rx.recv() resolves: with the oldest message, or with None once
\* the channel is empty and its sender dropped.
ControllerMemoryRecv ==
  /\ ctrl = "select"
  /\ ~memBranchDisabled
  /\ memq # <<>> \/ ~memTxAlive
  /\ LET msg == IF memq # <<>> THEN "some" ELSE "none" IN
     IF SelectMemoryArm(msg) = "fire"
     THEN /\ ctrl' = "terminate"
          /\ trigger' = "memory"
          /\ memq' = <<>>
          /\ UNCHANGED memBranchDisabled
     ELSE /\ memBranchDisabled' = TRUE
          /\ UNCHANGED <<ctrl, trigger, memq>>
  /\ UNCHANGED <<handlerVars, streamVars, hostVars, paramVars, engineVars>>
  /\ UNCHANGED <<memTxAlive, terminateCalls, terminateRet>>
  /\ UNCHANGED auxVars

\* The reason a Shutdown event would carry for a select! branch.
ReasonOf(t) == IF t = "wall" THEN "WallClockTime" ELSE "Memory(V8)"

\* Worker events the controller sends for the branch that fired: the branches
\* only write error!/debug! lines, no event is built or sent.
EmittedOnTerminate(t) == <<>>

\* After rt.block_on(future): terminate_execution() and the debug line.
ControllerTerminate ==
  /\ ctrl = "terminate"
  /\ LET ok == TerminateExecution(engine) IN
     /\ terminated' = TerminatedAfter(ok, terminated)
     /\ terminateRet' = IF ok THEN "true" ELSE "false"
  /\ terminateCalls' = terminateCalls + 1
  /\ ctrl' = "done"
  /\ UNCHANGED <<handlerVars, streamVars, hostVars, paramVars, memVars>>
  /\ UNCHANGED <<engine, heap_limit, heapCallbacks, opStateRx, userWaiting>>
  /\ UNCHANGED <<trigger, memBranchDisabled>>
  /\ events' = events \o EmittedOnTerminate(trigger)
  /\ UNCHANGED <<serverVars, event, cpu_time_used_ms, patched, timerVars>>

\* ------------------------------------------------------------- specification
Next ==
    \/ ListenAccept
    \/ HandleRequest
    \/ ClientHandshake
    \/ SendRequest
    \/ AwaitResponse
    \/ HostNew
    \/ HostAccept
    \/ HostRunStart
    \/ RunLoadMainModule
    \/ RunTerminated
    \/ UserAwait
    \/ UserWake
    \/ UserAcceptStream
    \/ UserReadRequest
    \/ UserWriteResponse
    \/ UserComplete
    \/ UserThrow
    \/ NearHeapLimitCallback
    \/ RunSendShutdown
    \/ HostBlockingRecv
    \/ ControllerWallTimeout
    \/ ControllerMemoryRecv
    \/ ControllerTerminate

Spec == Init /\ [][Next]_vars

\* The request tasks run on the tokio scheduler and the host and controller
\* threads on OS threads: each of their steps is taken once it stays enabled.
\* The sleep of the controller completes after worker_timeout_ms.  Nothing is
\* assumed of the user code, of the requests or of the near-heap-limit callback.
Fairness ==
    /\ WF_vars(ClientHandshake)
    /\ WF_vars(SendRequest)
    /\ WF_vars(AwaitResponse)
    /\ WF_vars(HostNew)
    /\ WF_vars(HostAccept)
    /\ WF_vars(HostRunStart)
    /\ WF_vars(RunLoadMainModule)
    /\ WF_vars(RunTerminated)
    /\ WF_vars(RunSendShutdown)
    /\ WF_vars(HostBlockingRecv)
    /\ WF_vars(ControllerWallTimeout)
    /\ WF_vars(ControllerMemoryRecv)
    /\ WF_vars(ControllerTerminate)

FairSpec == Spec /\ Fairness

\* Only the host thread is assumed to run: once run's future has resolved, the
\* send and the blocking_recv are steps of one OS thread that nothing blocks.
HostFairness ==
    /\ WF_vars(RunSendShutdown)
    /\ WF_vars(HostBlockingRecv)

HostFairSpec == Spec /\ HostFairness

\* ------------------------------------------------ JsWorker as a library type
\* JsWorker::new is public: a caller other than handle_conn passes its own
\* limits, import map and service path, holds the stream pair itself and then
\* follows the same protocol (new, accept, run).
InitWorker ==
  /\ handler = "idle"
  /\ req = NoReq
  /\ service_name \in {"hello", "nope"}
  /\ outcome = "none"
  /\ status = 0
  /\ local = "open"
  /\ peer = "closure"
  /\ reqWritten \in BOOLEAN
  /\ reqRead = FALSE
  /\ respWritten = 0
  /\ hostpc = "new"
  /\ newResult = "none"
  /\ runRes = "none"
  /\ shutdownSent = 0
  /\ shutdownTx = "none"
  /\ shutdownRx = "none"
  /\ memory_limit_mb \in 0..MaxMemLimitMb
  /\ worker_timeout_ms = HardWorkerTimeoutMs
  /\ import_map_path \in {"none", "some"}
  /\ engine = "none"
  /\ terminated = FALSE
  /\ heap_limit = mib_to_bytes(0)
  /\ heapCallbacks = 0
  /\ opStateRx = FALSE
  /\ userWaiting = FALSE
  /\ memq = <<>>
  /\ memTxAlive = FALSE
  /\ ctrl = "none"
  /\ trigger = "none"
  /\ memBranchDisabled = FALSE
  /\ terminateCalls = 0
  /\ terminateRet = "none"
  /\ listen = "accepting"
  /\ acceptFailed = FALSE
  /\ config = FirstConfig
  /\ events = <<>>
  /\ EventIdle
  /\ TimerIdle

WorkerNext ==
    \/ HostNew
    \/ HostAccept
    \/ HostRunStart
    \/ RunLoadMainModule
    \/ RunTerminated
    \/ UserAwait
    \/ UserWake
    \/ UserAcceptStream
    \/ UserReadRequest
    \/ UserWriteResponse
    \/ UserComplete
    \/ UserThrow
    \/ NearHeapLimitCallback
    \/ RunSendShutdown
    \/ HostBlockingRecv
    \/ ControllerWallTimeout
    \/ ControllerMemoryRecv
    \/ ControllerTerminate

WorkerSpec == InitWorker /\ [][WorkerNext]_vars

\* ==================================================================== claims
RunReturned == hostpc \in {"recv", "done"}

HostOk == req.host \in {"absent", "valid"}

Dispatched == handler \notin {"idle", "start"} /\ HostOk /\ outcome # "error"

\* No segments, an empty first segment, or a "." / ".." first segment.
BadPath(p) == p = <<>> \/ Head(p) \in {"", ".", ".."}

BootFailed == newResult \in NewErrs \cup NewPanics

\* C1: for every constructed sandbox, run sends on shutdown_tx exactly once
\* before it returns: nothing is sent before the future has resolved, and once
\* run has returned exactly one send has happened, whatever ended the future.
C1_ShutdownSentOnce ==
  /\ shutdownSent <= 1
  /\ RunReturned => shutdownSent = 1
  /\ ~RunReturned => shutdownSent = 0

\* The controller terminated the sandbox, run logged the error and returned.
C1_Witness ==
  /\ hostpc = "done"
  /\ runRes = "err"
  /\ terminateRet = "true"
  /\ shutdownSent = 1

\* C2: a request with a bad path is answered with 400 and no stream pair, host
\* thread or worker exists for it.
C2_BadPathRejected ==
  (Dispatched /\ BadPath(req.path)) =>
     /\ local = "none"
     /\ hostpc = "none"
     /\ newResult = "none"
     /\ handler = "done" => status = 400

\* C3: a request for a function whose directory does not exist is answered
\* with 404 and no host thread or engine exists for it.
C3_UnknownFunctionRejected ==
  (Dispatched /\ ~ServicePathExists(ServiceName(req.path))) =>
     /\ hostpc = "none"
     /\ engine = "none"
     /\ handler = "done" => status = 404

\* C4: once the handler of a request to an existing function has returned, the
\* sandbox of the request is not alive any more.
C4_NoSandboxAfterHandler ==
  (handler = "done" /\ HostOk /\ ServiceName(req.path) \in ExistingDirs
     /\ newResult = "ok") =>
     engine = "disposed"

\* C5: the controller invokes the termination handle at most once, only after
\* the wall-clock timer or a memory-breach notification has completed its
\* select, and a memory trigger means the callback did send a notification.
C5_TerminateOnlyOnTrigger ==
  /\ terminateCalls <= 1
  /\ terminateCalls = 1 <=> ctrl = "done"
  /\ ctrl \in {"terminate", "done"} <=> trigger \in {"wall", "memory"}
  /\ ctrl \in {"none", "select"} => terminateRet = "none" /\ ~terminated
  /\ trigger = "memory" => heapCallbacks > 0

\* The memory-breach notification came first and the engine was terminated.
C5_Witness ==
  /\ trigger = "memory"
  /\ ctrl = "done"
  /\ terminateRet = "true"
  /\ terminated

\* C6: a sandbox whose user code never yields to the event loop is eventually
\* past run with the termination handle invoked and the shutdown signal sent,
\* also when the user code never completes: from every state in which it
\* runs, unless the user code yields, run returns and the signal is sent.
C6_WallClockLiveness ==
  (hostpc \in {"load", "exec"}) ~>
     (userWaiting \/ (terminateCalls = 1 /\ RunReturned /\ shutdownSent = 1))

\* User code that never answered was stopped by the wall-clock trigger.
C6_Witness ==
  /\ trigger = "wall"
  /\ terminated
  /\ terminateRet = "true"
  /\ MainModuleExists(service_name)
  /\ runRes = "err"
  /\ respWritten = 0
  /\ RunReturned
  /\ shutdownSent = 1

\* C7: whenever the near-heap-limit callback has run, the cap it returned is
\* 1.25 * memory_limit_mb MiB in bytes (an integer, MiB being a multiple of 4).
C7_HeapCapExact ==
  heapCallbacks > 0 =>
     heap_limit = BytesAdd(mib_to_bytes(memory_limit_mb), QuarterOfMib(memory_limit_mb))

\* C8: the host thread does new, accept, run in this order, accept enqueues
\* the stream for a receiver that is already in the op-state, and user code
\* has read request bytes only from a stream that went through the queue.
C8_AcceptBeforeRead ==
  /\ hostpc = "accept" => newResult = "ok" /\ opStateRx /\ peer = "closure"
  /\ hostpc \in {"run", "load", "exec", "send", "recv", "done"} =>
        newResult = "ok" /\ peer \in {"queued", "taken", "closed"}
  /\ hostpc \in {"run", "load", "exec"} => opStateRx
  /\ reqRead => reqWritten /\ newResult = "ok" /\ peer \in {"taken", "closed"}
  /\ hostpc \in {"none", "new", "accept", "run", "load", "failed", "panicked"} => ~reqRead

\* The request was written before accept had run, and user code reads it.
C8_Witness ==
  /\ reqRead
  /\ hostpc = "exec"
  /\ peer = "taken"

\* C9: once building the sandbox has failed the stream given to the host thread
\* is closed, and the request handler ends with an error outcome.
C9_BootFailureEndsRequest ==
  /\ [](BootFailed => peer = "closed")
  /\ BootFailed ~> (handler = "done" /\ outcome = "error")

\* new returned Err while the request was already written and pending.
C9_Witness ==
  /\ newResult \in NewErrs
  /\ hostpc = "failed"
  /\ reqWritten
  /\ handler = "done"
  /\ outcome = "error"

\* C10: new never panics, and a failed new leaves no controller thread.
C10_NewNeverPanics ==
  /\ hostpc # "panicked"
  /\ newResult \notin NewPanics
  /\ BootFailed => ctrl = "none"

\* C11: the request-handler task never panics, whatever the request.
C11_HandlerNeverPanics == outcome # "panic"

\* ---------------------------------------------------------------------------
\* The server with any configuration, with accept errors and the interrupt.
\* Every variable of the request path before any connection is accepted.
CoreIdle ==
  /\ handler = "idle"
  /\ req = NoReq
  /\ service_name = ""
  /\ outcome = "none"
  /\ status = 0
  /\ local = "none"
  /\ peer = "none"
  /\ reqWritten = FALSE
  /\ reqRead = FALSE
  /\ respWritten = 0
  /\ hostpc = "none"
  /\ newResult = "none"
  /\ runRes = "none"
  /\ shutdownSent = 0
  /\ shutdownTx = "none"
  /\ shutdownRx = "none"
  /\ memory_limit_mb = 0
  /\ worker_timeout_ms = 0
  /\ import_map_path = "none"
  /\ engine = "none"
  /\ terminated = FALSE
  /\ heap_limit = mib_to_bytes(0)
  /\ heapCallbacks = 0
  /\ opStateRx = FALSE
  /\ userWaiting = FALSE
  /\ memq = <<>>
  /\ memTxAlive = FALSE
  /\ ctrl = "none"
  /\ trigger = "none"
  /\ memBranchDisabled = FALSE
  /\ terminateCalls = 0
  /\ terminateRet = "none"

InitServer ==
  /\ CoreIdle
  /\ listen = "accepting"
  /\ acceptFailed = FALSE
  /\ config \in ServerConfigs
  /\ events = <<>>
  /\ EventIdle
  /\ TimerIdle

ServerNext ==
    \/ Next
    \/ ListenAcceptErr
    \/ ListenCtrlC

ServerSpec == InitServer /\ [][ServerNext]_vars

\* C12: an accept failure leaves the loop accepting; once listen has returned
\* (which happens only with Ok, on the interrupt) no connection is accepted
\* any more; returning neither waits for nor changes the request tasks.
C12_ListenLoop ==
  [][ /\ (acceptFailed' /\ ~acceptFailed) => listen' = "accepting"
      /\ listen = "returned_ok" => (listen' = "returned_ok" /\ (handler = "idle" => handler' = "idle"))
      /\ listen' # listen => (listen' = "returned_ok" /\ UNCHANGED coreVars)
    ]_vars

\* listen returned after an accept failure while a request was still pending.
C12_Witness ==
  /\ listen = "returned_ok"
  /\ acceptFailed
  /\ handler = "await"

\* ---------------------------------------------------------------------------
\* with_cpu_time_used applied to every event value.
InitEvent ==
  /\ CoreIdle
  /\ listen = "accepting"
  /\ acceptFailed = FALSE
  /\ config = FirstConfig
  /\ events = <<>>
  /\ event \in WorkerEvents
  /\ cpu_time_used_ms = 0
  /\ patched = NoEvent
  /\ TimerIdle

WithCpuTimeUsed(ms) ==
  /\ cpu_time_used_ms' = ms
  /\ patched' = with_cpu_time_used(event, ms)
  /\ UNCHANGED <<coreVars, serverVars, events, event, timerVars>>

EventNext == \E ms \in Times : WithCpuTimeUsed(ms)

EventSpec == InitEvent /\ [][EventNext]_vars

\* C13: with_cpu_time_used(ms) keeps the variant; in UncaughtException and
\* Shutdown it sets cpu_time_used to ms and keeps every other field; every
\* other variant, EventLoopCompleted included, comes back as it went in.
C13_CpuTimePatch ==
  patched # NoEvent =>
    /\ patched.tag = event.tag
    /\ DOMAIN patched.body = DOMAIN event.body
    /\ event.tag \in {"UncaughtException", "Shutdown"} =>
         /\ patched.body.cpu_time_used = cpu_time_used_ms
         /\ \A f \in DOMAIN event.body \ {"cpu_time_used"} :
              patched.body[f] = event.body[f]
    /\ event.tag \notin {"UncaughtException", "Shutdown"} => patched = event

\* An EventLoopCompleted event went through with a time other than its own
\* and kept its own.
C13_Witness ==
  /\ event.tag = "EventLoopCompleted"
  /\ patched # NoEvent
  /\ cpu_time_used_ms # event.body.cpu_time_used
  /\ patched.body.cpu_time_used = event.body.cpu_time_used

\* C14: whenever the controller has terminated a sandbox, a Shutdown event
\* whose reason matches the trigger that fired has been emitted.
C14_ShutdownEventOnBreach ==
  (ctrl = "done" /\ terminateRet = "true") =>
    \E i \in DOMAIN events :
      /\ events[i].tag = "Shutdown"
      /\ events[i].body.reason = ReasonOf(trigger)

\* C15: the limits and the directory a request's sandbox gets are the
\* configured ones: the controller's deadline is the configured service
\* timeout (read as milliseconds or as seconds), the heap limit is the
\* configured memory limit, the function is looked up under services_dir.
C15_ConfiguredLimits ==
  hostpc # "none" =>
    /\ worker_timeout_ms \in {config.service_timeout, config.service_timeout * 1000}
    /\ memory_limit_mb = config.mem_limit
    /\ HardServicesDir = config.services_dir

C17_ControllerNotOutliving ==
  hostpc = "done" => ctrl = "done"

\* The controller's call of the termination handle.
TerminateStep == ctrl = "terminate" /\ ctrl' = "done"

TimerFrame == UNCHANGED <<coreVars, serverVars, eventVars>>

\* Drop of the last Arc<TimerId>: the timer is deleted.
TimerIdDrop(t) == "deleted"

\* CPUTimer::start: the value is moved into an Arc, timer_create and reset
\* either both succeed or the error is returned and the Arc is dropped.  The
\* caller made the channel and keeps its receiver.
TimerStart ==
  /\ osTimer = "none"
  /\ rxAlive' = TRUE
  /\ \E ok \in BOOLEAN :
       IF ok
       THEN /\ osTimer' = "armed"
            /\ handles' = 1
            /\ valLive' = TRUE
       ELSE /\ osTimer' = "failed"
            /\ handles' = 0
            /\ valLive' = FALSE
  /\ UNCHANGED <<clones, droppc, sigPending, sigpc, txValid, expiries, handled, pushed,
                 ignored, readFreed, freedBy>>
  /\ TimerFrame

\* #[derive(Clone)]: both Arcs get one more owner.
TimerClone ==
  /\ handles >= 1
  /\ droppc = "none"
  /\ clones < MaxClones
  /\ clones' = clones + 1
  /\ handles' = handles + 1
  /\ UNCHANGED <<osTimer, droppc, valLive, sigPending, sigpc, txValid, rxAlive,
                 expiries, handled, pushed, ignored, readFreed, freedBy>>
  /\ TimerFrame

\* A CPUTimer that is not the last one is dropped.
TimerDrop ==
  /\ handles > 1
  /\ handles' = handles - 1
  /\ UNCHANGED <<clones, osTimer, droppc, valLive, sigPending, sigpc, txValid, rxAlive,
                 expiries, handled, pushed, ignored, readFreed, freedBy>>
  /\ TimerFrame

\* The last CPUTimer is dropped, first field first: _timerid.  Whether a
\* signal of the deleted timer that is already pending is still delivered is
\* left open by timer_delete.
TimerDropId ==
  /\ handles = 1
  /\ droppc = "none"
  /\ droppc' = "id_dropped"
  /\ osTimer' = TimerIdDrop(osTimer)
  /\ \E keep \in BOOLEAN : sigPending' = (sigPending /\ keep)
  /\ UNCHANGED <<clones, handles, valLive, sigpc, txValid, rxAlive, expiries, handled,
                 pushed, ignored, readFreed, freedBy>>
  /\ TimerFrame

\* ... then _cpu_alarm_val: the last Arc goes and the CPUAlarmVal is freed.
TimerDropVal ==
  /\ droppc = "id_dropped"
  /\ droppc' = "done"
  /\ handles' = 0
  /\ valLive' = FALSE
  /\ freedBy' = "drop"
  /\ UNCHANGED <<clones, osTimer, sigPending, sigpc, txValid, rxAlive, expiries, handled,
                 pushed, ignored, readFreed>>
  /\ TimerFrame

\* The thread has used its CPU budget: the timer expires and SIGALRM, carrying
\* the pointer, becomes pending for the process.
TimerExpire ==
  /\ osTimer = "armed"
  /\ expiries < MaxAlarms
  /\ expiries' = expiries + 1
  /\ sigPending' = TRUE
  /\ UNCHANGED <<clones, osTimer, handles, droppc, valLive, sigpc, txValid, rxAlive,
                 handled, pushed, ignored, readFreed, freedBy>>
  /\ TimerFrame

\* The signal is delivered: the handler starts and reads sival_ptr.
SigDeliver ==
  /\ sigPending
  /\ sigpc = "idle"
  /\ sigPending' = FALSE
  /\ sigpc' = "entered"
  /\ UNCHANGED <<clones, osTimer, handles, droppc, valLive, txValid, rxAlive, expiries,
                 handled, pushed, ignored, readFreed, freedBy>>
  /\ TimerFrame

\* let boxed_state = Box::from_raw(sival.sival_ptr as *mut CPUAlarmVal)
SigFromRaw ==
  /\ sigpc = "entered"
  /\ sigpc' = "boxed"
  /\ UNCHANGED <<clones, osTimer, handles, droppc, valLive, sigPending, txValid, rxAlive,
                 expiries, handled, pushed, ignored, readFreed, freedBy>>
  /\ TimerFrame

\* cpu_alarms_tx = boxed_state.cpu_alarms_tx.clone(): reads the CPUAlarmVal.
\* Reading it after it was freed is undefined: the process crashes, or the
\* stale bytes still are the sender, or they are something else.
SigCloneTx ==
  /\ sigpc = "boxed"
  /\ IF valLive
     THEN /\ sigpc' = "cloned"
          /\ txValid' = TRUE
          /\ UNCHANGED readFreed
     ELSE /\ readFreed' = TRUE
          /\ \E o \in {"crash", "stale", "garbage"} :
               /\ sigpc' = IF o = "crash" THEN "crashed" ELSE "cloned"
               /\ txValid' = (o = "stale")
  /\ UNCHANGED <<clones, osTimer, handles, droppc, valLive, sigPending, rxAlive, expiries,
                 handled, pushed, ignored, freedBy>>
  /\ TimerFrame

\* std::mem::forget(boxed_state): the Box goes without its destructor, the
\* allocation and the owner count stay as they are.
SigForget ==
  /\ sigpc = "cloned"
  /\ sigpc' = "forgot"
  /\ UNCHANGED <<clones, osTimer, handles, droppc, valLive, sigPending, txValid, rxAlive,
                 expiries, handled, pushed, ignored, readFreed, freedBy>>
  /\ TimerFrame

\* if cpu_alarms_tx.send(()).is_err() { debug!(..) }, then the handler returns
\* and its clone of the sender is dropped.  A sender cloned from freed bytes
\* that are not the sender is undefined behaviour: a crash, or a unit that
\* goes nowhere.
SigSend ==
  /\ sigpc = "forgot"
  /\ txValid' = FALSE
  /\ IF txValid
     THEN /\ sigpc' = "idle"
          /\ handled' = handled + 1
          /\ IF rxAlive
             THEN pushed' = pushed + 1 /\ UNCHANGED ignored
             ELSE ignored' = ignored + 1 /\ UNCHANGED pushed
     ELSE \E o \in {"crash", "lost"} :
            /\ sigpc' = IF o = "crash" THEN "crashed" ELSE "idle"
            /\ handled' = IF o = "crash" THEN handled ELSE handled + 1
            /\ UNCHANGED <<pushed, ignored>>
  /\ UNCHANGED <<osTimer, handles, clones, droppc, valLive, sigPending, rxAlive,
                 expiries, readFreed, freedBy>>
  /\ TimerFrame

\* The owner of the alarm channel drops the receiver.
DropReceiver ==
  /\ rxAlive
  /\ rxAlive' = FALSE
  /\ UNCHANGED <<clones, osTimer, handles, droppc, valLive, sigPending, sigpc, txValid,
                 expiries, handled, pushed, ignored, readFreed, freedBy>>
  /\ TimerFrame

InitTimer ==
  /\ CoreIdle
  /\ listen = "accepting"
  /\ acceptFailed = FALSE
  /\ config = FirstConfig
  /\ events = <<>>
  /\ EventIdle
  /\ TimerIdle

TimerNext ==
    \/ TimerStart
    \/ TimerClone
    \/ TimerDrop
    \/ TimerDropId
    \/ TimerDropVal
    \/ TimerExpire
    \/ SigDeliver
    \/ SigFromRaw
    \/ SigCloneTx
    \/ SigForget
    \/ SigSend
    \/ DropReceiver

TimerSpec == InitTimer /\ [][TimerNext]_vars

\* C19: the handler never reads a CPUAlarmVal that has been freed, and it is
\* never the handler that frees it or that changes the number of its owners.
C19_AlarmValOutlivesSignals ==
  /\ ~readFreed
  /\ freedBy # "handler"

\* C20: the handler never crashes, and every run of it that returned pushed
\* exactly one unit, or found the receiver dropped and ignored the failure.
C20_OneUnitPerExpiry ==
  /\ sigpc # "crashed"
  /\ handled = pushed + ignored
  /\ ignored > 0 => ~rxAlive

\* C21: the host thread never hangs at shutdown.  The send in run finds the
\* receiver still held, so it never fails; when run has returned the unit is
\* in the channel and the sender is gone, so blocking_recv is ready; and from
\* the moment the future of run has resolved the host thread reaches its end.
C21_HostThreadEnds ==
  /\ [](hostpc = "send" => (shutdownRx = "held" /\ OneshotSend(shutdownRx) = "ok"))
  /\ [](hostpc = "recv" =>
          /\ shutdownSent = 1
          /\ shutdownTx = "gone"
          /\ shutdownRx = "held"
          /\ OneshotRecvReady(shutdownSent, shutdownTx))
  /\ [][hostpc = "send" => hostpc' \in {"send", "recv"}]_vars
  /\ (hostpc \in {"send", "recv"}) ~> (hostpc = "done")

\* The host thread ended after run logged an error of the user code: the unit
\* was sent and the receiver consumed.
C21_Witness ==
  /\ hostpc = "done"
  /\ runRes = "err"
  /\ MainModuleExists(service_name)
  /\ shutdownSent = 1
  /\ shutdownTx = "gone"
  /\ shutdownRx = "dropped"

====
